---- MODULE Spec2Model ----
(***************************************************************************)
(* Model of llm_inference.py: the command-line driver (__main__),          *)
(* LLM.generate_from_model, LLM.reshape_model_outputs and                  *)
(* LLM.postprocess_model_outputs.                                          *)
(*                                                                         *)
(* A Python str is a sequence of one-character strings; a Python list is a *)
(* sequence.  The program is single-threaded: pc is the position of the    *)
(* one thread of control, error the exception that ended it.               *)
(***************************************************************************)
EXTENDS Integers, Sequences, FiniteSets, TLC

VARIABLES
    pc,                     \* position of the thread of control
    error,                  \* "none" or the exception that propagated
    caller,                 \* who called the operation under way
    log,                    \* logger.info / logger.warning entries, in order
    result,                 \* value returned to the caller (None before)
    \* ---- reshape_model_outputs frame
    flat,                   \* the argument `outputs` as the caller passed it
    r_outputs,              \* the local `outputs` (rebound on line 286)
    input_batch_size,
    num_return_sequences,   \* the local of line 279
    return_seqs_per_input,
    \* ---- postprocess_model_outputs frame
    inputs,
    outputs,
    example_separator,
    trimmed_outputs,
    i,                      \* index of the outer loop (1-based here)
    cand,                   \* index of out_seq within outputs[i] (1-based)
    out_seq,                \* the str bound to out_seq (lines 302-303)
    segments,               \* the list bound to out_seq by line 304
    call_no,                \* 1 for the first call, 2 for the call on its result
    first_result,           \* what the first call returned
    \* ---- __main__ / generate_from_model frame
    entry,                  \* "main": python llm_inference.py; "import": LLM used as a library
    argv,                   \* command-line flags given
    args,                   \* the InferenceArguments instance
    prompts,                \* number of prompts in the batch passed in
    cur_batch_size,
    model_outputs,
    gen_calls,              \* number of calls of self.model.generate
    gen_kwargs,             \* keyword arguments of the last such call
    gen_raised,             \* whether self.model.generate raised
    load_raised,            \* whether LLM.__init__ raised
    stdout,                 \* what print wrote
    exit_code

vars == <<pc, error, caller, log, result,
          flat, r_outputs, input_batch_size, num_return_sequences,
          return_seqs_per_input,
          inputs, outputs, example_separator, trimmed_outputs, i, cand,
          out_seq, segments, call_no, first_result,
          entry, argv, args, prompts, cur_batch_size, model_outputs,
          gen_calls, gen_kwargs, gen_raised, load_raised, stdout, exit_code>>

reshapeVars == <<flat, r_outputs, input_batch_size, num_return_sequences,
                 return_seqs_per_input>>

postVars == <<inputs, outputs, example_separator, trimmed_outputs, i, cand,
              out_seq, segments, call_no, first_result>>

driverVars == <<entry, argv, args, prompts, cur_batch_size, model_outputs,
                gen_calls, gen_kwargs, gen_raised, load_raised, stdout,
                exit_code>>

None == "None"

(***************************************************************************)
(* Bounds of the model.                                                    *)
(***************************************************************************)
MaxFlat == 6          \* longest flat output list handed to reshape
MaxBatch == 3         \* largest input_batch_size / prompt batch
MaxStrLen == 4        \* longest candidate string handed to postprocess
MaxInputLen == 2      \* longest prompt handed to postprocess
MaxGroups == 2        \* most groups in a multi-group `outputs`
MaxCands == 2         \* most candidates per group in a multi-group `outputs`
MaxBeams == 3         \* largest --num_beams
MaxReturn == 3        \* largest --num_return_sequences

(***************************************************************************)
(* Small sets the inputs are drawn from.                                   *)
(***************************************************************************)
Items == {"x", "y"}               \* decoded strings as opaque list elements
Chars == {"a", "b", " "}          \* characters of prompts and candidates
Whitespace == {" "}               \* what str.strip() removes
\* example_separator: empty, whitespace, one character, two characters
Separators == {<<>>, <<" ">>, <<"b">>, <<"b", "b">>, <<" ", " ">>}
\* candidates and prompts of a multi-group `outputs`
ShapeCandidates == {<<"a">>, <<"a", " ", "b">>}
ShapePrompts == {<<"a">>}
ShapeSeparators == {<<" ">>, <<"b">>}

Min(a, b) == IF a < b THEN a ELSE b

SeqsUpTo(S, n) == UNION {[1..m -> S] : m \in 0..n}

(***************************************************************************)
(* Python built-ins used by the code.                                      *)
(***************************************************************************)

\* s[a:b] for 0 <= a, 0 <= b: clipped at the end of s, empty when a >= b.
PySliceInclusive(s, a, b) == SubSeq(s, a + 1, Min(b + 1, Len(s)))
PySlice(s, a, b) == SubSeq(s, a + 1, Min(b, Len(s)))

\* list(range(0, stop, step)) for step > 0; range() raises ValueError for
\* step = 0, which the caller of PyRange decides before using it.
PyRange(stop, step) ==
    [m \in 1..((stop + step - 1) \div step) |-> (m - 1) * step]

\* int(a / b) for naturals a and b > 0 within the bounds of the model.
IntDiv(a, b) == a \div b

\* sub occurs in s at 1-based position p
OccursAt(s, sub, p) ==
    /\ p >= 1
    /\ p + Len(sub) - 1 <= Len(s)
    /\ SubSeq(s, p, p + Len(sub) - 1) = sub

\* `sub in s` (the empty string occurs in every string)
Occurs(s, sub) == \E p \in 1..(Len(s) + 1) : OccursAt(s, sub, p)

\* s.replace(old, '') with count 1: what removing only the first occurrence gives
RECURSIVE ReplaceFirst(_, _)
ReplaceFirst(s, old) ==
    IF old = <<>> \/ Len(s) < Len(old) THEN s
    ELSE IF SubSeq(s, 1, Len(old)) = old
         THEN SubSeq(s, Len(old) + 1, Len(s))
         ELSE <<Head(s)>> \o ReplaceFirst(Tail(s), old)

\* s.replace(old, ''): every non-overlapping occurrence, scanning from the left;
\* an empty old puts '' between the characters and leaves s as it is.
RECURSIVE Replace(_, _)
Replace(s, old) ==
    IF old = <<>> \/ Len(s) < Len(old) THEN s
    ELSE IF SubSeq(s, 1, Len(old)) = old
         THEN Replace(SubSeq(s, Len(old) + 1, Len(s)), old)
         ELSE <<Head(s)>> \o Replace(Tail(s), old)

\* s.lstrip(), s.rstrip(), s.strip()
RECURSIVE LStrip(_)
LStrip(s) ==
    IF s # <<>> /\ Head(s) \in Whitespace THEN LStrip(Tail(s)) ELSE s

RECURSIVE RStrip(_)
RStrip(s) ==
    IF s # <<>> /\ s[Len(s)] \in Whitespace
    THEN RStrip(SubSeq(s, 1, Len(s) - 1))
    ELSE s

Strip(s) == RStrip(LStrip(s))

\* s.split(sep) for a non-empty sep: the list of segments between the
\* non-overlapping occurrences of sep, scanning from the left; [s] when there
\* is none.  acc is the segment being collected.
RECURSIVE SplitFrom(_, _, _)
SplitFrom(s, sep, acc) ==
    IF Len(s) < Len(sep) THEN <<acc \o s>>
    ELSE IF SubSeq(s, 1, Len(sep)) = sep
         THEN <<acc>> \o SplitFrom(SubSeq(s, Len(sep) + 1, Len(s)), sep, <<>>)
         ELSE SplitFrom(Tail(s), sep, Append(acc, Head(s)))

Split(s, sep) == SplitFrom(s, sep, <<>>)

\* out_seq[-1]: the last segment
LastSegment(segs) == segs[Len(segs)]
\* out_seq[0] of line 311
FirstSegment(segs) == segs[1]

\* the segment appended as it is
SegmentUntrimmed(seg) == seg
\* the .strip() of line 311
SegmentTrimmed(seg) == Strip(seg)

(***************************************************************************)
(* Frames at rest: the values a frame's variables hold while the           *)
(* operation is not under way.                                             *)
(***************************************************************************)
ReshapeAtRest ==
    /\ flat = <<>>
    /\ r_outputs = <<>>
    /\ input_batch_size = 0
    /\ num_return_sequences = 0
    /\ return_seqs_per_input = 0

PostAtRest ==
    /\ inputs = <<>>
    /\ outputs = <<>>
    /\ example_separator = <<>>
    /\ trimmed_outputs = <<>>
    /\ i = 0
    /\ cand = 0
    /\ out_seq = None
    /\ segments = <<>>
    /\ call_no = 0
    /\ first_result = None

NoArgs == [num_beams |-> 0, num_return_sequences |-> 0,
           no_early_stop |-> FALSE, do_sample |-> FALSE]

NoKwargs == [num_beams |-> 0, num_return_sequences |-> 0,
             early_stopping |-> FALSE, do_sample |-> FALSE]

NoArgv == [model_name_or_path |-> FALSE, prompt |-> FALSE, num_beams |-> 0,
           num_return_sequences |-> 0, no_early_stop |-> FALSE,
           do_sample |-> FALSE]

DriverAtRest ==
    /\ entry = "test"
    /\ argv = NoArgv
    /\ args = NoArgs
    /\ prompts = 0
    /\ cur_batch_size = 0
    /\ model_outputs = <<>>
    /\ gen_calls = 0
    /\ gen_kwargs = NoKwargs
    /\ gen_raised = FALSE
    /\ load_raised = FALSE
    /\ stdout = None
    /\ exit_code = None

Info(m) == [level |-> "info", msg |-> m]

\* An exception leaves the frame: nothing is returned.
Raise(e) ==
    /\ pc' = "raised"
    /\ error' = e

(***************************************************************************)
(* LLM.reshape_model_outputs, lines 272-291.                               *)
(***************************************************************************)

\* lines 279-283: the two locals and the logger.info
ReshapeCompute ==
    /\ pc = "reshape"
    /\ num_return_sequences' = Len(r_outputs)
    /\ IF input_batch_size = 0
       THEN /\ Raise("ZeroDivisionError")
            /\ UNCHANGED <<return_seqs_per_input, log>>
       ELSE /\ return_seqs_per_input' = IntDiv(Len(r_outputs), input_batch_size)
            /\ log' = IF IntDiv(Len(r_outputs), input_batch_size) > 1
                      THEN Append(log, Info("return sequences > batch size"))
                      ELSE log
            /\ pc' = "reshape_pack"
            /\ UNCHANGED error
    /\ UNCHANGED <<caller, result, flat, r_outputs, input_batch_size>>
    /\ UNCHANGED <<postVars, driverVars>>

\* a packing that walks the inputs instead of the outputs
ReshapePackPerInput ==
    /\ pc = "reshape_pack"
    /\ r_outputs' = [g \in 1..input_batch_size |->
                        PySlice(r_outputs, (g - 1) * return_seqs_per_input,
                                g * return_seqs_per_input)]
    /\ pc' = "reshape_assert"
    /\ UNCHANGED <<error, caller, log, result, flat, input_batch_size,
                   num_return_sequences, return_seqs_per_input>>
    /\ UNCHANGED <<postVars, driverVars>>

\* line 286: range(0, n, 0) raises ValueError
ReshapePack ==
    /\ pc = "reshape_pack"
    /\ IF return_seqs_per_input = 0
       THEN /\ Raise("ValueError")
            /\ UNCHANGED r_outputs
       ELSE /\ r_outputs' =
                 LET starts == PyRange(num_return_sequences, return_seqs_per_input)
                 IN  [g \in DOMAIN starts |->
                        PySlice(r_outputs, starts[g],
                                starts[g] + return_seqs_per_input)]
            /\ pc' = "reshape_assert"
            /\ UNCHANGED error
    /\ UNCHANGED <<caller, log, result, flat, input_batch_size,
                   num_return_sequences, return_seqs_per_input>>
    /\ UNCHANGED <<postVars, driverVars>>

\* the second assertion alone
ReshapeAssertFirstGroupOnly ==
    /\ pc = "reshape_assert"
    /\ IF r_outputs = <<>>
       THEN Raise("IndexError")
       ELSE IF Len(r_outputs[1]) # return_seqs_per_input
            THEN Raise("AssertionError")
            ELSE /\ pc' = "reshape_return"
                 /\ UNCHANGED error
    /\ UNCHANGED <<caller, log, result, reshapeVars>>
    /\ UNCHANGED <<postVars, driverVars>>

\* lines 288-289: the two assertions (outputs[0] of an empty list would be an
\* IndexError, which the first assertion excludes for input_batch_size > 0)
ReshapeAssert ==
    /\ pc = "reshape_assert"
    /\ IF Len(r_outputs) # input_batch_size
       THEN Raise("AssertionError")
       ELSE IF r_outputs = <<>>
            THEN Raise("IndexError")
            ELSE IF Len(r_outputs[1]) # return_seqs_per_input
                 THEN Raise("AssertionError")
                 ELSE /\ pc' = "reshape_return"
                      /\ UNCHANGED error
    /\ UNCHANGED <<caller, log, result, reshapeVars>>
    /\ UNCHANGED <<postVars, driverVars>>

\* line 291 (and line 270 when generate_from_model is the caller: it returns
\* what reshape returned)
ReshapeReturn ==
    /\ pc = "reshape_return"
    /\ result' = r_outputs
    /\ pc' = IF caller = "generate_from_model" THEN "generate_return" ELSE "done"
    /\ UNCHANGED <<error, caller, log, reshapeVars>>
    /\ UNCHANGED <<postVars, driverVars>>

ReshapeNext ==
    \/ ReshapeCompute
    \/ ReshapePack
    \/ ReshapeAssert
    \/ ReshapeReturn

\* A caller hands reshape_model_outputs any list and any batch size.
InitReshape ==
    /\ pc = "reshape"
    /\ error = "none"
    /\ caller = "test"
    /\ log = <<>>
    /\ result = None
    /\ flat \in SeqsUpTo(Items, MaxFlat)
    /\ r_outputs = flat
    /\ input_batch_size \in 0..MaxBatch
    /\ num_return_sequences = 0
    /\ return_seqs_per_input = 0
    /\ PostAtRest
    /\ DriverAtRest

SpecReshape == InitReshape /\ [][ReshapeNext]_vars

(***************************************************************************)
(* LLM.postprocess_model_outputs, lines 293-312.                           *)
(***************************************************************************)
Warning(c, g, k) == [level |-> "warning", call |-> c, group |-> g, cand |-> k]

\* line 300
PostCall ==
    /\ pc = "post_call"
    /\ trimmed_outputs' = [g \in 1..Len(outputs) |-> <<>>]
    /\ i' = 1
    /\ cand' = 1
    /\ pc' = "post_loop"
    /\ UNCHANGED <<error, caller, log, result, inputs, outputs,
                   example_separator, out_seq, segments, call_no, first_result>>
    /\ UNCHANGED <<reshapeVars, driverVars>>

\* line 302: outputs[i] has no further candidate, the outer loop goes on
PostNextGroup ==
    /\ pc = "post_loop"
    /\ i <= Len(trimmed_outputs)
    /\ cand > Len(outputs[i])
    /\ i' = i + 1
    /\ cand' = 1
    /\ UNCHANGED <<pc, error, caller, log, result, inputs, outputs,
                   example_separator, trimmed_outputs, out_seq, segments,
                   call_no, first_result>>
    /\ UNCHANGED <<reshapeVars, driverVars>>

\* lines 302-303: the next candidate, and out_seq.replace(inputs[i], '')
PostRemovePrompt ==
    /\ pc = "post_loop"
    /\ i <= Len(trimmed_outputs)
    /\ cand <= Len(outputs[i])
    /\ IF i > Len(inputs)
       THEN /\ Raise("IndexError")
            /\ UNCHANGED out_seq
       ELSE /\ out_seq' = Replace(outputs[i][cand], inputs[i])
            /\ pc' = "post_strip"
            /\ UNCHANGED error
    /\ UNCHANGED <<caller, log, result, inputs, outputs, example_separator,
                   trimmed_outputs, i, cand, segments, call_no, first_result>>
    /\ UNCHANGED <<reshapeVars, driverVars>>

\* line 303: .strip()
PostStrip ==
    /\ pc = "post_strip"
    /\ out_seq' = Strip(out_seq)
    /\ pc' = "post_split"
    /\ UNCHANGED <<error, caller, log, result, inputs, outputs,
                   example_separator, trimmed_outputs, i, cand, segments,
                   call_no, first_result>>
    /\ UNCHANGED <<reshapeVars, driverVars>>

\* line 304: str.split raises ValueError("empty separator") for ''
PostSplit ==
    /\ pc = "post_split"
    /\ IF example_separator = <<>>
       THEN /\ Raise("ValueError")
            /\ UNCHANGED segments
       ELSE /\ segments' = Split(out_seq, example_separator)
            /\ pc' = "post_check"
            /\ UNCHANGED error
    /\ UNCHANGED <<caller, log, result, inputs, outputs, example_separator,
                   trimmed_outputs, i, cand, out_seq, call_no, first_result>>
    /\ UNCHANGED <<reshapeVars, driverVars>>

\* lines 305-310
PostCheck ==
    /\ pc = "post_check"
    /\ log' = IF Len(segments) = 1
              THEN Append(log, Warning(call_no, i, cand))
              ELSE log
    /\ pc' = "post_append"
    /\ UNCHANGED <<error, caller, result>>
    /\ UNCHANGED <<postVars, reshapeVars, driverVars>>

\* a loop body that keeps only the candidates cut at the separator
PostAppendSkipUnfinished ==
    /\ pc = "post_append"
    /\ trimmed_outputs' =
         IF Len(segments) = 1 THEN trimmed_outputs
         ELSE [trimmed_outputs EXCEPT
                 ![i] = Append(@, SegmentTrimmed(FirstSegment(segments)))]
    /\ cand' = cand + 1
    /\ pc' = "post_loop"
    /\ UNCHANGED <<error, caller, log, result, inputs, outputs,
                   example_separator, i, out_seq, segments, call_no,
                   first_result>>
    /\ UNCHANGED <<reshapeVars, driverVars>>

\* line 311
PostAppend ==
    /\ pc = "post_append"
    /\ trimmed_outputs' =
         [trimmed_outputs EXCEPT
            ![i] = Append(@, SegmentTrimmed(FirstSegment(segments)))]
    /\ cand' = cand + 1
    /\ pc' = "post_loop"
    /\ UNCHANGED <<error, caller, log, result, inputs, outputs,
                   example_separator, i, out_seq, segments, call_no,
                   first_result>>
    /\ UNCHANGED <<reshapeVars, driverVars>>

\* line 312
PostReturn ==
    /\ pc = "post_loop"
    /\ i > Len(trimmed_outputs)
    /\ result' = trimmed_outputs
    /\ pc' = "done"
    /\ UNCHANGED <<error, caller, log>>
    /\ UNCHANGED <<postVars, reshapeVars, driverVars>>

\* The caller applies postprocess_model_outputs to what it returned, with the
\* same inputs and separator: a new frame, whose locals are not bound yet.
PostCallAgain ==
    /\ pc = "done"
    /\ call_no = 1
    /\ first_result' = result
    /\ outputs' = result
    /\ result' = None
    /\ call_no' = 2
    /\ pc' = "post_call"
    /\ trimmed_outputs' = <<>>
    /\ i' = 0
    /\ cand' = 0
    /\ out_seq' = None
    /\ segments' = <<>>
    /\ UNCHANGED <<error, caller, log, inputs, example_separator>>
    /\ UNCHANGED <<reshapeVars, driverVars>>

PostNext ==
    \/ PostCall
    \/ PostNextGroup
    \/ PostRemovePrompt
    \/ PostStrip
    \/ PostSplit
    \/ PostCheck
    \/ PostAppend
    \/ PostReturn
    \/ PostCallAgain

\* one prompt and one candidate, every string within the bounds
OneCandidateCalls ==
    /\ \E s \in SeqsUpTo(Chars, MaxStrLen) : outputs = <<<<s>>>>
    /\ \E p \in SeqsUpTo(Chars, MaxInputLen) : inputs = <<p>>
    /\ example_separator \in Separators

\* up to MaxGroups groups of up to MaxCands candidates each (empty groups and
\* groups of different sizes included); inputs has one prompt per group, or
\* one prompt too few.
ManyGroupCalls ==
    /\ outputs \in SeqsUpTo(SeqsUpTo(ShapeCandidates, MaxCands), MaxGroups)
    /\ \E n \in {Len(outputs), Len(outputs) - 1} \cap Nat :
          inputs \in [1..n -> ShapePrompts]
    /\ example_separator \in ShapeSeparators

InitPost ==
    /\ pc = "post_call"
    /\ error = "none"
    /\ caller = "test"
    /\ log = <<>>
    /\ result = None
    /\ OneCandidateCalls \/ ManyGroupCalls
    /\ trimmed_outputs = <<>>
    /\ i = 0
    /\ cand = 0
    /\ out_seq = None
    /\ segments = <<>>
    /\ call_no = 1
    /\ first_result = None
    /\ ReshapeAtRest
    /\ DriverAtRest

SpecPost == InitPost /\ [][PostNext]_vars

(***************************************************************************)
(* __main__ (lines 315-323), LLM.__init__ (196-219) and                    *)
(* LLM.generate_from_model (240-270).                                      *)
(*                                                                         *)
(* entry = "main" is `python llm_inference.py ...`; entry = "import" is a  *)
(* script that imports LLM, parses InferenceArguments the same way and     *)
(* calls generate_from_model with its own batch of prompts.                *)
(***************************************************************************)

\* the fields of the dataclass, lines 39-191
InferenceArgumentsFields ==
    {"model_name_or_path", "output_dir", "output_file", "input_file", "seed",
     "use_cuda", "batch_size", "min_length", "max_length", "max_new_tokens",
     "length_penalty", "no_early_stop", "num_return_sequences", "num_beams",
     "do_sample", "temperature", "top_k", "top_p", "verbose", "data_seed",
     "debug", "prompt_prefix", "n_refs", "few_shot_n", "example_separator",
     "ref_delimiter", "max_memory", "examples"}

\* lines 317-318.  --model_name_or_path has no default: without it argparse
\* exits with status 2.  The dataclass has no `prompt` field: --prompt is
\* either taken as an abbreviation of --prompt_prefix or refused by the
\* parser, depending on the argparse at hand; the instance returned has the
\* dataclass's fields and no others.
ParseArgs ==
    /\ pc = "parse"
    /\ \E outcome \in (IF ~argv.model_name_or_path THEN {"refused"}
                       ELSE IF argv.prompt THEN {"parsed", "refused"}
                       ELSE {"parsed"}) :
          IF outcome = "parsed"
          THEN /\ args' = [num_beams |-> argv.num_beams,
                           num_return_sequences |-> argv.num_return_sequences,
                           no_early_stop |-> argv.no_early_stop,
                           do_sample |-> argv.do_sample]
               /\ pc' = "load"
               /\ UNCHANGED <<error, exit_code>>
          ELSE /\ pc' = "exited"
               /\ error' = "SystemExit"
               /\ exit_code' = 2
               /\ UNCHANGED args
    /\ UNCHANGED <<caller, log, result, entry, argv, prompts, cur_batch_size,
                   model_outputs, gen_calls, gen_kwargs, gen_raised,
                   load_raised, stdout>>
    /\ UNCHANGED <<reshapeVars, postVars>>

\* line 320, lines 196-219: from_pretrained may raise; two logger.info
LoadModel ==
    /\ pc = "load"
    /\ \E raises \in BOOLEAN :
          IF raises
          THEN /\ load_raised' = TRUE
               /\ Raise("ResourceError")
               /\ UNCHANGED log
          ELSE /\ log' = log \o <<Info("Loaded model"), Info("Model footprint")>>
               /\ pc' = "call"
               /\ UNCHANGED <<load_raised, error>>
    /\ UNCHANGED <<caller, result, entry, argv, args, prompts, cur_batch_size,
                   model_outputs, gen_calls, gen_kwargs, gen_raised, stdout,
                   exit_code>>
    /\ UNCHANGED <<reshapeVars, postVars>>

\* line 323: [args.prompt] is evaluated before generate_from_model is called
MainCall ==
    /\ pc = "call"
    /\ entry = "main"
    /\ IF "prompt" \in InferenceArgumentsFields
       THEN /\ prompts' = 1
            /\ caller' = "main"
            /\ pc' = "tokenize"
            /\ UNCHANGED error
       ELSE /\ Raise("AttributeError")
            /\ UNCHANGED <<prompts, caller>>
    /\ UNCHANGED <<log, result, entry, argv, args, cur_batch_size,
                   model_outputs, gen_calls, gen_kwargs, gen_raised,
                   load_raised, stdout, exit_code>>
    /\ UNCHANGED <<reshapeVars, postVars>>

\* line 240: an importing script calls generate_from_model(inputs, args)
ImportCall ==
    /\ pc = "call"
    /\ entry = "import"
    /\ prompts' \in 1..MaxBatch
    /\ caller' = "import"
    /\ pc' = "tokenize"
    /\ UNCHANGED <<error, log, result, entry, argv, args, cur_batch_size,
                   model_outputs, gen_calls, gen_kwargs, gen_raised,
                   load_raised, stdout, exit_code>>
    /\ UNCHANGED <<reshapeVars, postVars>>

\* lines 244-246: one row of input_ids per prompt
Tokenize ==
    /\ pc = "tokenize"
    /\ pc' = "generate"
    /\ UNCHANGED <<error, caller, log, result>>
    /\ UNCHANGED <<driverVars, reshapeVars, postVars>>

\* what line 247-258 passes to self.model.generate
GenerateKwargs ==
    [num_beams |-> args.num_beams,
     num_return_sequences |-> args.num_return_sequences,
     early_stopping |-> ~args.no_early_stop,
     do_sample |-> args.do_sample]

\* the rows self.model.generate returns: num_return_sequences rows per input,
\* input by input
GeneratedRows ==
    [r \in 1..(prompts * args.num_return_sequences) |->
        [row_of_input |-> ((r - 1) \div args.num_return_sequences) + 1,
         sequence |-> ((r - 1) % args.num_return_sequences) + 1]]

\* a driver that calls generate again after a failure
GenerateWithRetry ==
    /\ pc = "generate"
    /\ gen_calls < 2
    /\ gen_calls' = gen_calls + 1
    /\ gen_kwargs' = GenerateKwargs
    /\ \E raises \in BOOLEAN :
          IF raises
          THEN /\ gen_raised' = TRUE
               /\ UNCHANGED <<pc, error, model_outputs>>
          ELSE /\ model_outputs' = GeneratedRows
               /\ pc' = "log"
               /\ UNCHANGED <<error, gen_raised>>
    /\ UNCHANGED <<caller, log, result, entry, argv, args, prompts,
                   cur_batch_size, load_raised, stdout, exit_code>>
    /\ UNCHANGED <<reshapeVars, postVars>>

\* lines 247-258: the one call of self.model.generate, which returns the rows
\* or raises; nothing here catches what it raises
Generate ==
    /\ pc = "generate"
    /\ gen_calls' = gen_calls + 1
    /\ gen_kwargs' = GenerateKwargs
    /\ \E raises \in BOOLEAN :
          IF raises
          THEN /\ gen_raised' = TRUE
               /\ Raise("ResourceError")
               /\ UNCHANGED model_outputs
          ELSE /\ model_outputs' = GeneratedRows
               /\ pc' = "log"
               /\ UNCHANGED <<error, gen_raised>>
    /\ UNCHANGED <<caller, log, result, entry, argv, args, prompts,
                   cur_batch_size, load_raised, stdout, exit_code>>
    /\ UNCHANGED <<reshapeVars, postVars>>

\* lines 259-266
LogThroughput ==
    /\ pc = "log"
    /\ cur_batch_size' = prompts
    /\ log' = Append(log, Info("Generated new tokens"))
    /\ pc' = "decode"
    /\ UNCHANGED <<error, caller, result, entry, argv, args, prompts,
                   model_outputs, gen_calls, gen_kwargs, gen_raised,
                   load_raised, stdout, exit_code>>
    /\ UNCHANGED <<reshapeVars, postVars>>

\* tokenizer.batch_decode: one string per row, in the order of the rows
BatchDecode(rows) == [r \in DOMAIN rows |-> [text_of |-> rows[r]]]

\* line 268
Decode ==
    /\ pc = "decode"
    /\ model_outputs' = BatchDecode(model_outputs)
    /\ pc' = "call_reshape"
    /\ UNCHANGED <<error, caller, log, result, entry, argv, args, prompts,
                   cur_batch_size, gen_calls, gen_kwargs, gen_raised,
                   load_raised, stdout, exit_code>>
    /\ UNCHANGED <<reshapeVars, postVars>>

\* line 270: self.reshape_model_outputs(model_outputs, cur_batch_size)
CallReshape ==
    /\ pc = "call_reshape"
    /\ flat' = model_outputs
    /\ r_outputs' = model_outputs
    /\ input_batch_size' = cur_batch_size
    /\ caller' = "generate_from_model"
    /\ pc' = "reshape"
    /\ UNCHANGED <<error, log, result, num_return_sequences,
                   return_seqs_per_input>>
    /\ UNCHANGED <<driverVars, postVars>>

\* generate_from_model has returned: line 323 prints the value and the
\* interpreter exits with status 0; an importing caller keeps the value
GenerateReturn ==
    /\ pc = "generate_return"
    /\ IF entry = "main"
       THEN /\ stdout' = result
            /\ exit_code' = 0
            /\ pc' = "exited"
       ELSE /\ pc' = "done"
            /\ UNCHANGED <<stdout, exit_code>>
    /\ UNCHANGED <<error, caller, log, result, entry, argv, args, prompts,
                   cur_batch_size, model_outputs, gen_calls, gen_kwargs,
                   gen_raised, load_raised>>
    /\ UNCHANGED <<reshapeVars, postVars>>

\* an exception nothing caught ends `python llm_inference.py` with a
\* traceback and status 1
Propagate ==
    /\ pc = "raised"
    /\ entry = "main"
    /\ pc' = "exited"
    /\ exit_code' = 1
    /\ UNCHANGED <<error, caller, log, result, entry, argv, args, prompts,
                   cur_batch_size, model_outputs, gen_calls, gen_kwargs,
                   gen_raised, load_raised, stdout>>
    /\ UNCHANGED <<reshapeVars, postVars>>

Next ==
    \/ ParseArgs
    \/ LoadModel
    \/ MainCall
    \/ ImportCall
    \/ Tokenize
    \/ Generate
    \/ LogThroughput
    \/ Decode
    \/ CallReshape
    \/ ReshapeCompute
    \/ ReshapePack
    \/ ReshapeAssert
    \/ ReshapeReturn
    \/ GenerateReturn
    \/ Propagate

\* the command line: which flags are given, and the values of the integer
\* and boolean flags (argparse takes any int)
Init ==
    /\ pc = "parse"
    /\ error = "none"
    /\ caller = "shell"
    /\ log = <<>>
    /\ result = None
    /\ entry \in {"main", "import"}
    /\ argv \in [model_name_or_path : BOOLEAN,
                 prompt : BOOLEAN,
                 num_beams : 1..MaxBeams,
                 num_return_sequences : 1..MaxReturn,
                 no_early_stop : BOOLEAN,
                 do_sample : BOOLEAN]
    /\ args = NoArgs
    /\ prompts = 0
    /\ cur_batch_size = 0
    /\ model_outputs = <<>>
    /\ gen_calls = 0
    /\ gen_kwargs = NoKwargs
    /\ gen_raised = FALSE
    /\ load_raised = FALSE
    /\ stdout = None
    /\ exit_code = None
    /\ ReshapeAtRest
    /\ PostAtRest

Spec == Init /\ [][Next]_vars

(***************************************************************************)
(* Claims about reshape_model_outputs, checked under SpecReshape.          *)
(***************************************************************************)
RECURSIVE Flatten(_)
Flatten(groups) ==
    IF groups = <<>> THEN <<>> ELSE Head(groups) \o Flatten(Tail(groups))

ReshapeEnded == pc \in {"done", "raised"}
ReshapeReturned == pc \in {"reshape_return", "done"}

\* C1: for batch_size > 0 and len(flat) = batch_size * k with k >= 1, the call
\* returns exactly batch_size groups, every group has exactly k elements,
\* group g is flat[(g-1)*k : g*k], and the groups concatenated give flat.
C1_ReshapeExactGroups ==
    (/\ ReshapeEnded
     /\ input_batch_size > 0
     /\ Len(flat) >= input_batch_size
     /\ Len(flat) % input_batch_size = 0)
    => LET k == Len(flat) \div input_batch_size IN
       /\ pc = "done"
       /\ error = "none"
       /\ Len(result) = input_batch_size
       /\ \A g \in 1..Len(result) :
             /\ Len(result[g]) = k
             /\ \A e \in 1..k : result[g][e] = flat[(g - 1) * k + e]
       /\ Flatten(result) = flat

C1_Witness ==
    /\ pc = "done"
    /\ input_batch_size = 3
    /\ Len(flat) = 6
    /\ flat[1] # flat[2]
    /\ Len(result) = 3

\* C2: for batch_size > 0 and len(flat) not a multiple of batch_size (also
\* when 0 < len(flat) < batch_size) the call raises and never returns a
\* grouping: the assertion of line 288 fails when len(flat) > batch_size, and
\* range() refuses the zero step when len(flat) < batch_size.
C2_ReshapeRejectsNonMultiple ==
    (input_batch_size > 0 /\ Len(flat) % input_batch_size # 0)
    => /\ ~ReshapeReturned
       /\ result = None
       /\ ReshapeEnded =>
             /\ pc = "raised"
             /\ error = IF Len(flat) < input_batch_size
                        THEN "ValueError" ELSE "AssertionError"

C2_Witness ==
    /\ pc = "raised"
    /\ error = "AssertionError"
    /\ input_batch_size = 2
    /\ Len(flat) = 3

\* C10: the call returns only when len(flat) >= batch_size, with non-empty
\* groups; when len(flat) < batch_size (the empty list included) the chunk
\* size is 0 and the call raises instead of returning batch_size empty
\* groups.
C10_ReshapeNeverReturnsEmptyGroups ==
    /\ ReshapeReturned =>
          /\ Len(flat) >= input_batch_size
          /\ input_batch_size > 0
          /\ \A g \in 1..Len(r_outputs) : r_outputs[g] # <<>>
    /\ (ReshapeEnded /\ input_batch_size > 0 /\ Len(flat) < input_batch_size)
       => /\ return_seqs_per_input = 0
          /\ pc = "raised"
          /\ error = "ValueError"
          /\ result = None

C10_Witness ==
    /\ pc = "raised"
    /\ error = "ValueError"
    /\ flat = <<>>
    /\ input_batch_size = 2
    /\ return_seqs_per_input = 0

(***************************************************************************)
(* Claims about postprocess_model_outputs, checked under SpecPost.         *)
(***************************************************************************)

\* the candidates the current call has appended a string for
Processed ==
    {gc \in (1..Len(trimmed_outputs)) \X (1..MaxCands + 1) :
        gc[2] <= Len(trimmed_outputs[gc[1]])}

\* the string handed to the split of line 304 for candidate c of group g
PromptStripped(g, c) == Strip(Replace(outputs[g][c], inputs[g]))

\* the part of s before the first occurrence of sep; s when there is none
BeforeFirst(s, sep) ==
    IF Occurs(s, sep)
    THEN LET p == CHOOSE q \in 1..(Len(s) + 1) :
                     /\ OccursAt(s, sep, q)
                     /\ \A r \in 1..(q - 1) : ~OccursAt(s, sep, r)
         IN  SubSeq(s, 1, p - 1)
    ELSE s

\* 1-based starts of the occurrences of old that a scan from the left meets,
\* each scan resuming after the occurrence found
RECURSIVE StartsFrom(_, _, _)
StartsFrom(s, old, p) ==
    IF old = <<>> \/ p + Len(old) - 1 > Len(s) THEN {}
    ELSE IF OccursAt(s, old, p)
         THEN {p} \cup StartsFrom(s, old, p + Len(old))
         ELSE StartsFrom(s, old, p + 1)

\* s without the positions in drop
Without(s, drop) ==
    LET keep == (1..Len(s)) \ drop
    IN  [k \in 1..Cardinality(keep) |->
            s[CHOOSE q \in keep : Cardinality({r \in keep : r <= q}) = k]]

\* C3: with len(inputs) = len(outputs), the structure returned has the shape
\* of outputs: as many groups, group g with as many strings as outputs[g],
\* string c of group g being the one made from candidate c of outputs[g].
C3_PostprocessKeepsShape ==
    (pc = "done" /\ Len(inputs) = Len(outputs))
    => /\ Len(result) = Len(outputs)
       /\ \A g \in 1..Len(outputs) :
             /\ Len(result[g]) = Len(outputs[g])
             /\ \A c \in 1..Len(outputs[g]) :
                   result[g][c] =
                       Strip(BeforeFirst(PromptStripped(g, c), example_separator))

C3_Witness ==
    /\ pc = "done"
    /\ call_no = 1
    /\ Len(inputs) = 2
    /\ Len(outputs) = 2
    /\ Len(outputs[1]) = 1
    /\ Len(outputs[2]) = 2
    /\ outputs[2][1] # outputs[2][2]
    /\ Len(result[2]) = 2
    /\ Len(log) = 1

NoSeparatorInFirstResult ==
    \A g \in 1..Len(first_result) : \A c \in 1..Len(first_result[g]) :
        ~Occurs(first_result[g][c], example_separator)

NoPromptInFirstResult ==
    \A g \in 1..Len(first_result) : \A c \in 1..Len(first_result[g]) :
        inputs[g] = <<>> \/ ~Occurs(first_result[g][c], inputs[g])

SecondCallEnded == call_no = 2 /\ pc \in {"done", "raised"}

\* C4 as stated: when the separator does not occur in the once-trimmed
\* strings, postprocess applied to the result of postprocess returns that
\* result.
C4_Original_IdempotentWithoutSeparator ==
    (SecondCallEnded /\ NoSeparatorInFirstResult)
    => (pc = "done" /\ result = first_result)

\* C4 amended: when neither the separator nor a non-empty inputs[i] occurs in
\* the once-trimmed strings of group i, postprocess applied to the result of
\* postprocess returns that result.
C4_IdempotentWithoutSeparatorAndPrompt ==
    (SecondCallEnded /\ NoSeparatorInFirstResult /\ NoPromptInFirstResult)
    => (pc = "done" /\ result = first_result)

C4_Witness ==
    /\ SecondCallEnded
    /\ NoSeparatorInFirstResult
    /\ NoPromptInFirstResult
    /\ Len(first_result) = 1
    /\ Len(first_result[1]) = 1
    /\ first_result[1][1] # <<>>
    /\ Occurs(first_result[1][1], <<" ">>)
    /\ inputs[1] # <<>>
    /\ result = first_result

\* C5 as stated: the prompt-stripping step removes only the first occurrence
\* of inputs[i] from the candidate; a later occurrence stays.
C5_Original_RemovesFirstOccurrenceOnly ==
    pc = "post_strip" => out_seq = ReplaceFirst(outputs[i][cand], inputs[i])

\* C5 amended: the prompt-stripping step removes every occurrence of
\* inputs[i] that a scan of the candidate from the left meets (resuming after
\* each occurrence found), not only the first; an empty inputs[i] removes
\* nothing.
C5_RemovesEveryOccurrence ==
    pc = "post_strip" =>
        LET s == outputs[i][cand]
            old == inputs[i]
            starts == StartsFrom(s, old, 1)
            drop == {q \in 1..Len(s) :
                        \E p \in starts : p <= q /\ q < p + Len(old)}
        IN  /\ out_seq = Without(s, drop)
            /\ Len(out_seq) = Len(s) - Len(old) * Cardinality(starts)

C5_Witness ==
    /\ pc = "post_strip"
    /\ call_no = 1
    /\ inputs[i] = <<"a">>
    /\ outputs[i][cand] = <<"a", "b", "a", " ">>
    /\ out_seq = <<"b", " ">>

\* C6: the string returned for a candidate is the whitespace-trimmed part of
\* the prompt-stripped candidate before the first occurrence of the
\* separator; a warning is logged for exactly the candidates whose
\* prompt-stripped form lacks the separator, and for those the whole
\* prompt-stripped candidate is returned; the call fails for no such
\* candidate (only an empty separator, or a missing prompt, makes it raise).
C6_TrimsAtFirstSeparator ==
    /\ \A gc \in Processed :
          LET s == PromptStripped(gc[1], gc[2])
              r == trimmed_outputs[gc[1]][gc[2]]
              warned == \E k \in 1..Len(log) :
                            log[k] = Warning(call_no, gc[1], gc[2])
          IN  /\ r = Strip(BeforeFirst(s, example_separator))
              /\ warned <=> ~Occurs(s, example_separator)
              /\ ~Occurs(s, example_separator) => r = s
    /\ pc = "raised" =>
          \/ error = "ValueError" /\ example_separator = <<>>
          \/ error = "IndexError" /\ Len(inputs) < Len(outputs)
    /\ Len(log) <= Cardinality(Processed) + (IF pc = "post_append" THEN 1 ELSE 0)
                     + (IF call_no = 2
                        THEN Cardinality({gc \in (1..Len(first_result)) \X (1..MaxCands + 1) :
                                            gc[2] <= Len(first_result[gc[1]])})
                        ELSE 0)

C6_Witness ==
    /\ pc = "done"
    /\ call_no = 1
    /\ Len(outputs) = 1
    /\ outputs[1] = << <<"a", " ", "b", " ">> >>
    /\ inputs = << <<"a">> >>
    /\ example_separator = <<" ", " ">>
    /\ result = << << <<"b">> >> >>
    /\ log = <<Warning(1, 1, 1)>>

(***************************************************************************)
(* Claims about __main__ and generate_from_model, checked under Spec.      *)
(***************************************************************************)

\* C7: one call of generate_from_model calls self.model.generate at most
\* once; when that call raises, the exception propagates: no second call, no
\* decode, no reshape, nothing returned or printed.
C7_GenerateOnceAndErrorPropagates ==
    /\ gen_calls <= 1
    /\ gen_raised =>
          /\ gen_calls = 1
          /\ pc \in {"raised", "exited"}
          /\ error = "ResourceError"
          /\ model_outputs = <<>>
          /\ cur_batch_size = 0
          /\ flat = <<>>
          /\ caller # "generate_from_model"
          /\ result = None
          /\ stdout = None
          /\ ~(pc = "exited" /\ exit_code = 0)

C7_Witness ==
    /\ gen_raised
    /\ entry = "import"
    /\ pc = "raised"
    /\ prompts = 2
    /\ gen_calls = 1

\* C8: `python llm_inference.py` given a model identifier and a prompt, whose
\* command line is parsed and whose model loading and generation raise
\* nothing, passes a one-element batch to generate_from_model, prints the
\* grouped output and exits with status 0.
C8_MainPrintsAndExitsZero ==
    (/\ entry = "main"
     /\ argv.model_name_or_path
     /\ argv.prompt
     /\ args # NoArgs
     /\ ~load_raised
     /\ ~gen_raised
     /\ pc = "exited")
    => /\ exit_code = 0
       /\ prompts = 1
       /\ stdout # None

\* C9: whenever generate_from_model calls self.model.generate with beam
\* search (num_beams > 1) and early stopping, the num_return_sequences it
\* passes is at most the num_beams it passes.
C9_ReturnSequencesWithinBeams ==
    (/\ gen_calls > 0
     /\ gen_kwargs.num_beams > 1
     /\ gen_kwargs.early_stopping)
    => gen_kwargs.num_return_sequences <= gen_kwargs.num_beams

====
